---- MODULE Spec2Model ----
(***************************************************************************)
(* Password database checker (src/src/main.rs): a parser of policy texts   *)
(* "first-second pattern", a parser of lines "policy: password", the two   *)
(* validation rules, and the pipeline of main that counts valid entries.   *)
(*                                                                         *)
(* A text is a sequence of characters; a character is a one-symbol string, *)
(* with the names TAB (U+0009) and ARABIC3 (U+0663, ARABIC-INDIC DIGIT     *)
(* THREE) for two characters that have no plain spelling here.             *)
(* Option<T> is a sequence of length 0 (None) or 1 (Some).                 *)
(***************************************************************************)
EXTENDS Integers, Sequences, FiniteSets, TLC

\* ---------------------------------------------------------------- bounds
MaxDigits == 4      \* longest digit group drawn for a policy text
MaxPos == 4         \* largest first/second drawn for validate
MaxPwLen == 3       \* longest password drawn for validate
MaxTailLen == 3     \* longest text drawn after the first colon of a line
MaxLines == 3       \* longest input source drawn for main

\* ------------------------------------------------------------ characters
AsciiDigit == {"0", "1", "2", "3", "4", "5", "6", "7", "8", "9"}

\* \d of the regex crate is Unicode aware: every decimal digit (Nd).
PerlDigit == AsciiDigit \cup {"ARABIC3"}

\* \s of the regex crate and str::trim both use White_Space.
WhiteSpace == {" ", "TAB"}

\* the class [a-z]
LowerAZ == {"a", "b", "c", "d", "e", "f", "g", "h", "i", "j", "k", "l", "m",
            "n", "o", "p", "q", "r", "s", "t", "u", "v", "w", "x", "y", "z"}

DigitVal(c) ==
    CASE c = "0" -> 0 [] c = "1" -> 1 [] c = "2" -> 2 [] c = "3" -> 3
      [] c = "4" -> 4 [] c = "5" -> 5 [] c = "6" -> 6 [] c = "7" -> 7
      [] c = "8" -> 8 [] c = "9" -> 9

DigitChar(d) ==
    CASE d = 0 -> "0" [] d = 1 -> "1" [] d = 2 -> "2" [] d = 3 -> "3"
      [] d = 4 -> "4" [] d = 5 -> "5" [] d = 6 -> "6" [] d = 7 -> "7"
      [] d = 8 -> "8" [] d = 9 -> "9"

None == << >>
Some(x) == << x >>

\* ------------------------------------------------------- integer helpers
\* <u32 as FromStr>::from_str: an optional '+', then one or more ASCII
\* digits, accumulated with checked_mul(10) and checked_add(digit).
RECURSIVE u32_accumulate(_, _)
u32_accumulate(acc, rest) ==
    IF rest = << >> THEN Some(acc)
    ELSE IF acc > 429496729 \/ (acc = 429496729 /\ DigitVal(Head(rest)) > 5)
         THEN None
         ELSE u32_accumulate(acc * 10 + DigitVal(Head(rest)), Tail(rest))

u32_from_str(t) ==
    LET body == IF t # << >> /\ Head(t) = "+" THEN Tail(t) ELSE t
    IN  IF body = << >> \/ (\E k \in 1..Len(body) : body[k] \notin AsciiDigit)
        THEN None
        ELSE u32_accumulate(0, body)

\* Display of a u32: decimal, no sign, no leading zero.
RECURSIVE u32_to_string(_)
u32_to_string(n) ==
    IF n < 10 THEN << DigitChar(n) >>
    ELSE u32_to_string(n \div 10) \o << DigitChar(n % 10) >>

\* usize -> u32 by "as": the value modulo 2^32, computed on 16-bit limbs.
as_u32(n) == (n % 65536) + 65536 * ((n \div 65536) % 65536)

\* x - 1 on u32 followed by "as usize", as two 16-bit limbs.  With overflow
\* checks (debug profile) 0 - 1 panics; without them it wraps to 2^32 - 1.
u32_sub_one(x, checks) ==
    IF x = 0
    THEN IF checks THEN [panic |-> TRUE, hi |-> 0, lo |-> 0]
         ELSE [panic |-> FALSE, hi |-> 65535, lo |-> 65535]
    ELSE [panic |-> FALSE, hi |-> (x - 1) \div 65536, lo |-> (x - 1) % 65536]

\* variant: the position is used as the index, the "- 1" forgotten
chars_nth_one_based(s, n) ==
    IF n.hi = 0 /\ n.lo + 1 < Len(s) THEN Some(s[n.lo + 2]) ELSE None

\* s.chars().nth(n): the character at 0-based index n, None past the end.
chars_nth(s, n) ==
    IF n.hi = 0 /\ n.lo < Len(s) THEN Some(s[n.lo + 1]) ELSE None

\* variant: contains instead of count
matches_count_first(s, c) == IF \E k \in 1..Len(s) : s[k] = c THEN 1 ELSE 0

\* s.matches(c).count(): the number of characters of s equal to c.
matches_count(s, c) == Cardinality({k \in 1..Len(s) : s[k] = c})

\* Option<char>::map(|c| c == pattern)
map_eq(o, pattern) == IF o = None THEN None ELSE Some(o[1] = pattern)

\* str::trim: drop leading and trailing White_Space.
RECURSIVE trim_start(_)
trim_start(s) ==
    IF s # << >> /\ Head(s) \in WhiteSpace THEN trim_start(Tail(s)) ELSE s

RECURSIVE trim_end(_)
trim_end(s) ==
    IF s # << >> /\ s[Len(s)] \in WhiteSpace
    THEN trim_end(SubSeq(s, 1, Len(s) - 1)) ELSE s

trim(s) == trim_end(trim_start(s))

\* --------------------------------------------------------- PasswordPolicy
SledRental == "SledRental"
TobogganCorporate == "TobogganCorporate"
PasswordPolicyMode == {SledRental, TobogganCorporate}

PasswordPolicy_new(pattern, first, second) ==
    [pattern |-> pattern, first |-> first, second |-> second]

MinGroup == 1
MaxGroup == 3

\* Regex ^(\d{1,3})-(\d{1,3})\s([a-z])$ : the three captures, or None.
regex_captures(s) ==
    LET shapes == {m \in (MinGroup..MaxGroup) \X (MinGroup..MaxGroup) :
                     /\ Len(s) = m[1] + m[2] + 3
                     /\ \A k \in 1..m[1] : s[k] \in PerlDigit
                     /\ s[m[1] + 1] = "-"
                     /\ \A k \in (m[1] + 2)..(m[1] + 1 + m[2]) : s[k] \in PerlDigit
                     /\ s[m[1] + m[2] + 2] \in WhiteSpace
                     /\ s[m[1] + m[2] + 3] \in LowerAZ}
    IN  IF shapes = {} THEN None
        ELSE LET m == CHOOSE x \in shapes : TRUE
             IN  Some([g1 |-> SubSeq(s, 1, m[1]),
                       g2 |-> SubSeq(s, m[1] + 2, m[1] + 1 + m[2]),
                       g3 |-> SubSeq(s, m[1] + m[2] + 3, m[1] + m[2] + 3)])

\* variant: the two number captures exchanged
PasswordPolicy_parse_swapped(s) ==
    LET capture == regex_captures(s)
    IN  IF capture = None THEN None
        ELSE LET first == u32_from_str(capture[1].g2)
                 second == u32_from_str(capture[1].g1)
                 pattern == capture[1].g3
             IN  IF first = None \/ second = None \/ pattern = << >> THEN None
                 ELSE Some(PasswordPolicy_new(Head(pattern), first[1], second[1]))

PasswordPolicy_parse(s) ==
    LET capture == regex_captures(s)
    IN  IF capture = None THEN None
        ELSE LET first == u32_from_str(capture[1].g1)
                 second == u32_from_str(capture[1].g2)
                 pattern == capture[1].g3
             IN  IF first = None \/ second = None \/ pattern = << >> THEN None
                 ELSE Some(PasswordPolicy_new(Head(pattern), first[1], second[1]))

\* validate: [panic, value]; value is meaningful when panic is FALSE.
PasswordPolicy_validate(self, mode, s, checks) ==
    IF mode = SledRental
    THEN LET count == as_u32(matches_count(s, self.pattern))
         IN  [panic |-> FALSE, value |-> (self.first <= count /\ count <= self.second)]
    ELSE LET i1 == u32_sub_one(self.first, checks)
             i2 == u32_sub_one(self.second, checks)
         IN  IF i1.panic \/ i2.panic THEN [panic |-> TRUE, value |-> FALSE]
             ELSE LET first_char == chars_nth(s, i1)
                      second_char == chars_nth(s, i2)
                  IN  [panic |-> FALSE,
                       value |-> (map_eq(first_char, self.pattern)
                                    # map_eq(second_char, self.pattern))]

\* variant: the two numbers rendered in the other order
PasswordPolicy_fmt_swapped(self) ==
    u32_to_string(self.second) \o << "-" >> \o u32_to_string(self.first)
        \o << " " >> \o << self.pattern >>

\* Display: "{}-{} {}"
PasswordPolicy_fmt(self) ==
    u32_to_string(self.first) \o << "-" >> \o u32_to_string(self.second)
        \o << " " >> \o << self.pattern >>

\* ---------------------------------------------------------- PasswordEntry
PasswordEntry_new(policy, password) == [policy |-> policy, password |-> password]

\* variant: the last colon instead of the first (rsplitn)
RECURSIVE find_colon_last(_, _)
find_colon_last(s, k) ==
    IF k > Len(s) THEN 0
    ELSE LET later == find_colon_last(s, k + 1)
         IN  IF later # 0 THEN later ELSE IF s[k] = ":" THEN k ELSE 0

\* s.splitn(2, ":"): the text before the first colon and, when there is a
\* colon, the whole text after it.
RECURSIVE find_colon(_, _)
find_colon(s, k) ==
    IF k > Len(s) THEN 0
    ELSE IF s[k] = ":" THEN k ELSE find_colon(s, k + 1)

splitn2(s) ==
    LET k == find_colon(s, 1)
    IN  IF k = 0 THEN << s >>
        ELSE << SubSeq(s, 1, k - 1), SubSeq(s, k + 1, Len(s)) >>

\* variant: a missing password part is taken as the empty password
PasswordEntry_parse_lenient(s) ==
    LET parts == splitn2(s)
        policy == PasswordPolicy_parse(trim(parts[1]))
    IN  IF policy = None THEN None
        ELSE IF Len(parts) < 2 THEN Some(PasswordEntry_new(policy[1], << >>))
        ELSE Some(PasswordEntry_new(policy[1], trim(parts[2])))

PasswordEntry_parse(s) ==
    LET parts == splitn2(s)
        policy == PasswordPolicy_parse(trim(parts[1]))
    IN  IF policy = None THEN None
        ELSE IF Len(parts) < 2 THEN None
        ELSE Some(PasswordEntry_new(policy[1], trim(parts[2])))

PasswordEntry_is_valid(self, mode, checks) ==
    PasswordPolicy_validate(self.policy, mode, self.password, checks)


\* ---------------------------------------------------------------- main
\* Result<String>::ok of one item of io::Lines
line_ok(item) == IF item.ok THEN Some(item.text) ELSE None

\* the two filter_map stages and the push of collect, for one item
collect_push(db, item) ==
    LET str == line_ok(item)
        entry == IF str = None THEN None ELSE PasswordEntry_parse(str[1])
    IN  IF entry = None THEN db ELSE Append(db, entry[1])

\* variant: count() without the filter
count_step_all(n, keep) == n + 1

\* one step of filter(..).count()
count_step(n, keep) == IF keep THEN n + 1 ELSE n

\* ----------------------------------------------------------------- state
VARIABLES
    overflow_checks,   \* build profile: TRUE for debug, FALSE for release
    v_self, v_mode, v_s, v_pc, v_value,      \* a call of PasswordPolicy::validate
    p_s, p_pc, p_policy, p_text,             \* PasswordPolicy::parse, then Display
    e_s, e_pc, e_entry,                      \* a call of PasswordEntry::parse
    openable,          \* whether File::open("./input") succeeds
    source,            \* the items io::Lines yields, in order
    lines,             \* the items not yet consumed
    database, total, valid, invalid, cursor,
    stdout,            \* the reports printed so far
    pc                 \* position of main

validateVars == << v_self, v_mode, v_s, v_pc, v_value >>
policyVars == << p_s, p_pc, p_policy, p_text >>
entryVars == << e_s, e_pc, e_entry >>
mainVars == << openable, source, lines, database, total, valid, invalid,
               cursor, stdout, pc >>
vars == << overflow_checks, validateVars, policyVars, entryVars, mainVars >>

\* ---------------------------------------------------------------- inputs
SeqsUpTo(S, n) == UNION {[1..k -> S] : k \in 0..n}

PasswordChars == {"a", "b", "A"}
PatternChars == {"a", "b"}

DigitGroups == SeqsUpTo({"0", "7"}, MaxDigits)
                 \cup {<< "ARABIC3" >>, << "+", "7" >>}
Separators == {<< "-" >>, << >>}
Gaps == {<< " " >>, << "TAB" >>, << >>}
Letters == {<< "a" >>, << "z" >>, << "A" >>, << "a", "b" >>, << >>}

PolicyTexts ==
    {g1 \o sep \o g2 \o gap \o c :
        g1 \in DigitGroups, sep \in Separators, g2 \in DigitGroups,
        gap \in Gaps, c \in Letters}

EntryPolicies ==
    {<< "7", "-", "0", " ", "a" >>, << "0", "7", "-", "7", "TAB", "z" >>,
     << "7", "-", "7", " ", "A" >>, << "7", "7", " ", "a" >>, << >>,
     << "7", " ", "-", "7", " ", "a" >>}
Margins == {<< >>, << " " >>}
EntryRests == {<< >>} \cup {<< ":" >> \o w : w \in SeqsUpTo({" ", "x", ":"}, MaxTailLen)}

EntryLines ==
    {m1 \o p \o m2 \o rest :
        m1 \in Margins, p \in EntryPolicies, m2 \in Margins, rest \in EntryRests}

Readable(text) == [ok |-> TRUE, text |-> text]
Unreadable == [ok |-> FALSE, text |-> << >>]

SourceItems ==
    {Readable(<< "1", "-", "2", " ", "a", ":", "a", "b" >>),
     Readable(<< "1", "-", "2", " ", "a", ":", " ", "a", "a" >>),
     Readable(<< "1", "-", "3", " ", "b", ":", "c", "d" >>),
     Readable(<< "0", "-", "1", " ", "a", ":", "a" >>),
     Readable(<< "1", "-", "2", " ", "a" >>),
     Readable(<< "1", "-", "2", " ", "A", ":", "a" >>),
     Unreadable}

\* ------------------------------------------------------- idle components
IdleValidate ==
    /\ v_self = PasswordPolicy_new("a", 1, 1)
    /\ v_mode = SledRental
    /\ v_s = << >>
    /\ v_pc = "idle"
    /\ v_value = FALSE

IdlePolicy ==
    /\ p_s = << >>
    /\ p_pc = "idle"
    /\ p_policy = None
    /\ p_text = None

IdleEntry ==
    /\ e_s = << >>
    /\ e_pc = "idle"
    /\ e_entry = None

IdleMain ==
    /\ openable = FALSE
    /\ source = << >>
    /\ lines = << >>
    /\ database = << >>
    /\ total = 0
    /\ valid = 0
    /\ invalid = 0
    /\ cursor = 0
    /\ stdout = << >>
    /\ pc = "idle"

\* ------------------------------------- PasswordPolicy::validate, one call
InitValidate ==
    /\ overflow_checks \in BOOLEAN
    /\ v_self \in {PasswordPolicy_new(c, f, s) :
                     c \in PatternChars, f \in 0..MaxPos, s \in 0..MaxPos}
    /\ v_mode \in PasswordPolicyMode
    /\ v_s \in SeqsUpTo(PasswordChars, MaxPwLen)
    /\ v_pc = "ready"
    /\ v_value = FALSE
    /\ IdlePolicy /\ IdleEntry /\ IdleMain

Validate ==
    /\ v_pc = "ready"
    /\ LET r == PasswordPolicy_validate(v_self, v_mode, v_s, overflow_checks)
       IN  /\ v_pc' = IF r.panic THEN "panicked" ELSE "returned"
           /\ v_value' = r.value
    /\ UNCHANGED << overflow_checks, v_self, v_mode, v_s, policyVars,
                    entryVars, mainVars >>

NextValidate == Validate
SpecValidate == InitValidate /\ [][NextValidate]_vars

\* ----------------------------- PasswordPolicy::parse, then its rendering
InitPolicy ==
    /\ overflow_checks \in BOOLEAN
    /\ p_s \in PolicyTexts
    /\ p_pc = "ready"
    /\ p_policy = None
    /\ p_text = None
    /\ IdleValidate /\ IdleEntry /\ IdleMain

ParsePolicy ==
    /\ p_pc = "ready"
    /\ p_policy' = PasswordPolicy_parse(p_s)
    /\ p_pc' = "parsed"
    /\ UNCHANGED << overflow_checks, p_s, p_text, validateVars, entryVars,
                    mainVars >>

FormatPolicy ==
    /\ p_pc = "parsed"
    /\ p_policy # None
    /\ p_text' = Some(PasswordPolicy_fmt(p_policy[1]))
    /\ p_pc' = "formatted"
    /\ UNCHANGED << overflow_checks, p_s, p_policy, validateVars, entryVars,
                    mainVars >>

NextPolicy == ParsePolicy \/ FormatPolicy
SpecPolicy == InitPolicy /\ [][NextPolicy]_vars

\* ----------------------------------------- PasswordEntry::parse, one call
InitEntry ==
    /\ overflow_checks \in BOOLEAN
    /\ e_s \in EntryLines
    /\ e_pc = "ready"
    /\ e_entry = None
    /\ IdleValidate /\ IdlePolicy /\ IdleMain

ParseEntry ==
    /\ e_pc = "ready"
    /\ e_entry' = PasswordEntry_parse(e_s)
    /\ e_pc' = "returned"
    /\ UNCHANGED << overflow_checks, e_s, validateVars, policyVars, mainVars >>

NextEntry == ParseEntry
SpecEntry == InitEntry /\ [][NextEntry]_vars

\* ------------------------------------------------------------------ main
InitMain ==
    /\ overflow_checks \in BOOLEAN
    /\ openable \in BOOLEAN
    /\ source \in SeqsUpTo(SourceItems, MaxLines)
    /\ lines = << >>
    /\ database = << >>
    /\ total = 0
    /\ valid = 0
    /\ invalid = 0
    /\ cursor = 0
    /\ stdout = << >>
    /\ pc = "start"
    /\ IdleValidate /\ IdlePolicy /\ IdleEntry

\* read_lines("./input").unwrap()
Open ==
    /\ pc = "start"
    /\ IF openable
       THEN /\ lines' = source
            /\ pc' = "collect"
       ELSE /\ lines' = lines
            /\ pc' = "aborted"
    /\ UNCHANGED << overflow_checks, openable, source, database, total, valid,
                    invalid, cursor, stdout, validateVars, policyVars,
                    entryVars >>

\* collect: one item of the source through both filter_map stages
CollectNext ==
    /\ pc = "collect"
    /\ lines # << >>
    /\ database' = collect_push(database, Head(lines))
    /\ lines' = Tail(lines)
    /\ UNCHANGED << overflow_checks, openable, source, total, valid, invalid,
                    cursor, stdout, pc, validateVars, policyVars, entryVars >>

\* the source is exhausted: total = database.len(), the count begins
CollectDone ==
    /\ pc = "collect"
    /\ lines = << >>
    /\ total' = Len(database)
    /\ cursor' = 1
    /\ valid' = 0
    /\ pc' = "count"
    /\ UNCHANGED << overflow_checks, openable, source, lines, database,
                    invalid, stdout, validateVars, policyVars, entryVars >>

\* filter(|e| e.is_valid(TobogganCorporate)).count(): one entry
CountNext ==
    /\ pc = "count"
    /\ cursor <= Len(database)
    /\ LET r == PasswordEntry_is_valid(database[cursor], TobogganCorporate,
                                       overflow_checks)
       IN  IF r.panic
           THEN /\ pc' = "panicked"
                /\ UNCHANGED << valid, cursor >>
           ELSE /\ valid' = count_step(valid, r.value)
                /\ cursor' = cursor + 1
                /\ pc' = pc
    /\ UNCHANGED << overflow_checks, openable, source, lines, database, total,
                    invalid, stdout, validateVars, policyVars, entryVars >>

\* invalid = total - valid (usize), then println!, then main returns
Report ==
    /\ pc = "count"
    /\ cursor > Len(database)
    /\ IF valid > total /\ overflow_checks
       THEN /\ pc' = "panicked"
            /\ UNCHANGED << invalid, stdout >>
       ELSE /\ invalid' = total - valid
            /\ stdout' = Append(stdout, [valid |-> valid, total |-> total,
                                         invalid |-> total - valid])
            /\ pc' = "done"
    /\ UNCHANGED << overflow_checks, openable, source, lines, database, total,
                    valid, cursor, validateVars, policyVars, entryVars >>

NextMain == Open \/ CollectNext \/ CollectDone \/ CountNext \/ Report
SpecMain == InitMain /\ [][NextMain]_vars

Init == InitMain
Next == NextMain
Spec == SpecMain


\* ---------------------------------------------------- terms of the claims
SetMin(S) == CHOOSE k \in S : \A j \in S : k <= j
SetMax(S) == CHOOSE k \in S : \A j \in S : j <= k

\* the character at 1-based position p of s is c
HoldsAt(s, p, c) == p >= 1 /\ p <= Len(s) /\ s[p] = c

Occurrences(s, c) == Len(SelectSeq(s, LAMBDA x : x = c))

\* 1 to 3 decimal digits
DigitGroup(g) == Len(g) \in 1..3 /\ \A k \in 1..Len(g) : g[k] \in AsciiDigit

\* digits, a hyphen, digits, one character of gaps, one lowercase letter
PolicyForm(s, gaps) ==
    \E d \in 1..Len(s) :
        /\ s[d] = "-"
        /\ Len(s) - d \in 3..5
        /\ DigitGroup(SubSeq(s, 1, d - 1))
        /\ DigitGroup(SubSeq(s, d + 1, Len(s) - 2))
        /\ s[Len(s) - 1] \in gaps
        /\ s[Len(s)] \in LowerAZ

Hyphen(s) == SetMin({k \in 1..Len(s) : s[k] = "-"})
FirstGroup(s) == SubSeq(s, 1, Hyphen(s) - 1)
SecondGroup(s) == SubSeq(s, Hyphen(s) + 1, Len(s) - 2)

RECURSIVE DecimalValue(_)
DecimalValue(g) ==
    IF g = << >> THEN 0
    ELSE DigitVal(g[Len(g)]) + 10 * DecimalValue(SubSeq(g, 1, Len(g) - 1))

NoLeadingZero(g) == Len(g) = 1 \/ g[1] # "0"

\* t without its leading and trailing whitespace
Strip(t) ==
    LET ink == {k \in 1..Len(t) : t[k] \notin WhiteSpace}
    IN  IF ink = {} THEN << >> ELSE SubSeq(t, SetMin(ink), SetMax(ink))

Colons(t) == {k \in 1..Len(t) : t[k] = ":"}
BeforeColon(t) == SubSeq(t, 1, SetMin(Colons(t)) - 1)
AfterColon(t) == SubSeq(t, SetMin(Colons(t)) + 1, Len(t))

\* a line the pipeline is to skip: unreadable, without a colon, or with a
\* policy segment that is not of the policy form
Skipped(item) ==
    \/ ~item.ok
    \/ Colons(item.text) = {}
    \/ ~PolicyForm(Strip(BeforeColon(item.text)), WhiteSpace)

Kept(item) == ~Skipped(item)

Accepted(item) ==
    PasswordEntry_is_valid(PasswordEntry_parse(item.text)[1], TobogganCorporate,
                           overflow_checks).value

ValidateCalled == v_pc \in {"returned", "panicked"}

\* ---------------------------------------------------------------- claims

\* C1: in TobogganCorporate mode with first, second >= 1, validate returns
\* TRUE exactly when one and only one of the positions first and second
\* holds the pattern, a position past the end counting as not holding it.
C1_PositionalXor ==
    (ValidateCalled /\ v_mode = TobogganCorporate
        /\ v_self.first >= 1 /\ v_self.second >= 1)
    => /\ v_pc = "returned"
       /\ v_value = (HoldsAt(v_s, v_self.first, v_self.pattern)
                       # HoldsAt(v_s, v_self.second, v_self.pattern))

\* C2: in TobogganCorporate mode validate returns a boolean and never
\* panics, for every first and second the parser can return, 0 included.
C2_NoPanic ==
    (ValidateCalled /\ v_mode = TobogganCorporate) => v_pc = "returned"

\* C3 as stated: every text "a-b c" with 1 to 3 digits in a and in b, a
\* space and a lowercase letter parses, and renders back to the same text.
C3_RoundTrip ==
    (p_pc # "ready" /\ PolicyForm(p_s, {" "}))
    => /\ p_policy # None
       /\ p_pc = "formatted" => p_text = Some(p_s)

\* C3 amended: the round trip holds for the texts whose two numbers are
\* written without a leading zero.
C3_RoundTripCanonical ==
    (p_pc # "ready" /\ PolicyForm(p_s, {" "})
        /\ NoLeadingZero(FirstGroup(p_s)) /\ NoLeadingZero(SecondGroup(p_s)))
    => /\ p_policy # None
       /\ p_pc = "formatted" => p_text = Some(p_s)

C3_Witness ==
    /\ p_pc = "formatted"
    /\ PolicyForm(p_s, {" "})
    /\ NoLeadingZero(FirstGroup(p_s)) /\ NoLeadingZero(SecondGroup(p_s))
    /\ Len(FirstGroup(p_s)) = 3 /\ Len(SecondGroup(p_s)) = 2
    /\ p_text = Some(p_s)

\* C4: in SledRental mode validate returns TRUE exactly when the number of
\* characters of the password equal to the pattern lies in first..second.
C4_OccurrenceRange ==
    (ValidateCalled /\ v_mode = SledRental)
    => /\ v_pc = "returned"
       /\ v_value = (v_self.first <= Occurrences(v_s, v_self.pattern)
                       /\ Occurrences(v_s, v_self.pattern) <= v_self.second)
       /\ v_self.first > v_self.second => ~v_value
       /\ (v_self.first = 0 /\ Occurrences(v_s, v_self.pattern) = 0) => v_value

C4_Witness ==
    /\ v_pc = "returned" /\ v_mode = SledRental
    /\ v_self.pattern = "a" /\ v_self.first = 2 /\ v_self.second = 2
    /\ v_s = << "a", "A", "a" >>
    /\ v_value

\* C5: the report has valid + invalid = total, total the number of lines
\* that parsed into an entry, valid the number of those the validator
\* accepts, and valid <= total.
C5_CountsAddUp ==
    pc = "done"
    => LET parsed == {i \in 1..Len(source) :
                        /\ source[i].ok
                        /\ PasswordEntry_parse(source[i].text) # None}
           accepted == {i \in parsed : Accepted(source[i])}
           r == stdout[Len(stdout)]
       IN  /\ r.total = Cardinality(parsed)
           /\ r.valid = Cardinality(accepted)
           /\ r.valid + r.invalid = r.total
           /\ r.valid <= r.total
           /\ r.invalid >= 0

C5_Witness ==
    /\ pc = "done"
    /\ stdout[1].valid >= 1
    /\ stdout[1].invalid >= 1
    /\ Len(source) > stdout[1].total

\* C6: the counts reported for an input are those of the same input with
\* its skipped lines (unreadable, no colon, bad policy segment) removed.
C6_SkippedLinesDoNotCount ==
    pc = "done"
    => LET kept == SelectSeq(source, Kept)
           r == stdout[Len(stdout)]
       IN  /\ r.total = Len(kept)
           /\ r.valid = Cardinality({i \in 1..Len(kept) : Accepted(kept[i])})

C6_Witness ==
    /\ pc = "done"
    /\ Len(source) = 3
    /\ ~source[1].ok
    /\ source[2].ok /\ Colons(source[2].text) = {}
    /\ Kept(source[3])
    /\ stdout[1].total = 1

\* C7: parse returns a policy exactly for the texts made of 1 to 3 decimal
\* digits, a hyphen, 1 to 3 decimal digits, one whitespace character and one
\* lowercase letter; first and second are then the decimal values of the
\* two groups and pattern is the letter.
C7_ParseExactly ==
    p_pc # "ready"
    => /\ (p_policy # None) <=> PolicyForm(p_s, WhiteSpace)
       /\ p_policy # None
            => /\ p_policy[1].first = DecimalValue(FirstGroup(p_s))
               /\ p_policy[1].second = DecimalValue(SecondGroup(p_s))
               /\ p_policy[1].first \in 0..999
               /\ p_policy[1].second \in 0..999
               /\ p_policy[1].pattern = p_s[Len(p_s)]

C7_Witness ==
    /\ p_pc = "parsed"
    /\ p_policy = Some(PasswordPolicy_new("z", 7, 700))
    /\ Len(p_s) = 9
    /\ p_s[8] = "TAB"

\* C8: parse of a line returns an entry exactly when the line has a colon
\* and the trimmed text before the first colon parses as a policy; the
\* password is the whole text after the first colon, trimmed.
C8_SplitAtFirstColon ==
    e_pc = "returned"
    => IF Colons(e_s) # {} /\ PasswordPolicy_parse(Strip(BeforeColon(e_s))) # None
       THEN e_entry = Some(PasswordEntry_new(
                        PasswordPolicy_parse(Strip(BeforeColon(e_s)))[1],
                        Strip(AfterColon(e_s))))
       ELSE e_entry = None

C8_Witness ==
    /\ e_pc = "returned"
    /\ e_entry # None
    /\ e_entry[1].password = << "x", ":" >>
    /\ Len(AfterColon(e_s)) = 3
    /\ Head(e_s) = " "

\* C9: without an openable source the run aborts and never reports; with
\* one, the run ends only by emitting its single report after every line
\* has been consumed.
C9_RunOutcome ==
    /\ ~openable => (stdout = << >> /\ pc \in {"start", "aborted"})
    /\ openable => pc \notin {"aborted", "panicked"}
    /\ Len(stdout) <= 1
    /\ stdout # << >> => (lines = << >> /\ pc = "done")
    /\ pc = "done" => Len(stdout) = 1

\* C10: in TobogganCorporate mode with first, second >= 1, a password
\* shorter than both positions is invalid, and a password with the pattern
\* at exactly one of the two positions is valid.
C10_ShortInvalidOneMatchValid ==
    (ValidateCalled /\ v_mode = TobogganCorporate
        /\ v_self.first >= 1 /\ v_self.second >= 1)
    => /\ (Len(v_s) < v_self.first /\ Len(v_s) < v_self.second)
            => (v_pc = "returned" /\ ~v_value)
       /\ (HoldsAt(v_s, v_self.first, v_self.pattern)
             # HoldsAt(v_s, v_self.second, v_self.pattern))
            => (v_pc = "returned" /\ v_value)

C10_Witness ==
    /\ v_pc = "returned" /\ v_mode = TobogganCorporate
    /\ v_self.first = 2 /\ v_self.second = 4
    /\ Len(v_s) = 3
    /\ HoldsAt(v_s, 2, v_self.pattern)
    /\ v_value

====
